---- MODULE Spec2Model ----
(***************************************************************************)
(* A model of the rust-todo command-line task manager.                     *)
(*   src/todo/src/lib.rs   the Task store (add, list, toggle, rm, reset),  *)
(*                         print_list, truncate, the storage bootstrap     *)
(*   src/todo/src/main.rs  main: the command dispatcher                    *)
(*                                                                         *)
(* Spec       one process after another runs main to completion            *)
(* ConcSpec   two processes call the store operations, one SQL statement   *)
(*            at a time                                                    *)
(* TruncSpec  truncate applied to a bounded set of names                   *)
(***************************************************************************)
EXTENDS Integers, Sequences, FiniteSets, TLC

VARIABLES
    db_folder,      \* ~/tasks_db/ exists
    db_file,        \* ~/tasks_db/tasks.sqlite exists
    tasks_table,    \* the tasks table exists in the file
    rows,           \* the rows of the tasks table: a set of Task records
    seq,            \* sqlite_sequence's value for 'tasks' (0: no such row)
    now,            \* current_timestamp
    args,           \* argv of the process that ran last (<<>>: it is gone)
    confirmation,   \* what Confirm::interact returned to the last process
    out,            \* what the last process printed
    exit_code,      \* its exit status
    ever_assigned,  \* history: the highest id any INSERT was ever given
    since_reset,    \* history: the highest id given since the last Task::reset
    pc,             \* ConcSpec: where each process is inside a store operation
    trunc_in,       \* TruncSpec: truncate's input
    trunc_max,      \* TruncSpec: truncate's max
    trunc_out       \* TruncSpec: truncate's result

vars == <<db_folder, db_file, tasks_table, rows, seq, now, args, confirmation,
          out, exit_code, ever_assigned, since_reset, pc,
          trunc_in, trunc_max, trunc_out>>

fsVars == <<db_folder, db_file, tasks_table>>
cliVars == <<args, confirmation, out, exit_code>>
truncVars == <<trunc_in, trunc_max, trunc_out>>

----------------------------------------------------------------------------
(* Bounds *)

\* INSERTs are enabled while the next id is at most MaxId
MaxId == 3
\* current_timestamp runs from 0 to MaxClock
MaxClock == 1
\* TruncSpec: every name of at most MaxNameLen characters is an input
MaxNameLen == 5
\* TruncSpec: the longer names are within Around characters of the display width
Around == 3

\* the display width print_list passes to truncate
PRINT_WIDTH == 44
\* i32::MAX
I32_MAX == 2147483647
\* the exit status of a Rust process that panicked
PANIC_EXIT == 101

----------------------------------------------------------------------------
(* Strings: a Rust String is modelled as the sequence of its characters.   *)

\* one character that takes two bytes in UTF-8 (U+00E9), the rest take one
TwoByteChar == "U+00E9"

Utf8Len(c) == IF c = TwoByteChar THEN 2 ELSE 1

RECURSIVE ByteLen(_)
\* str::len: the length in bytes
ByteLen(s) == IF s = <<>> THEN 0 ELSE Utf8Len(Head(s)) + ByteLen(Tail(s))

Prefix(s, n) == SubSeq(s, 1, n)

\* &s[..k]: the characters in the first k bytes; panics unless k is at most
\* the byte length and falls on a character boundary
ByteSlice(s, k) ==
    LET cuts == {n \in 0..Len(s) : ByteLen(Prefix(s, n)) = k}
    IN  IF cuts = {} THEN [panic |-> TRUE, s |-> <<>>]
        ELSE [panic |-> FALSE, s |-> Prefix(s, CHOOSE n \in cuts : TRUE)]

Ellipsis == <<".", ".", ".">>

\* truncate(input, max): max as usize is huge for a negative max; max_len - 3
\* underflows for max_len < 3 (a panic, or a wrapped bound the slice rejects)
Truncate(input, max) ==
    IF max >= 0 /\ ByteLen(input) > max
    THEN IF max < 3 THEN [panic |-> TRUE, s |-> <<>>]
         ELSE LET truncated == ByteSlice(input, max - 3)
              IN  [panic |-> truncated.panic, s |-> truncated.s \o Ellipsis]
    ELSE [panic |-> FALSE, s |-> input]

RECURSIVE Join(_)
\* [String].join(" ")
Join(words) ==
    IF words = <<>> THEN <<>>
    ELSE IF Len(words) = 1 THEN words[1]
    ELSE words[1] \o <<" ">> \o Join(Tail(words))

Digits == <<"0", "1", "2", "3", "4", "5", "6", "7", "8", "9">>

IsDigit(c) == \E d \in 1..10 : Digits[d] = c

DigitVal(c) == (CHOOSE d \in 1..10 : Digits[d] = c) - 1

\* whether 10 * acc + sign * d still fits an i32 (checked_mul, then
\* checked_add for a positive number, checked_sub for a negative one)
Fits(acc, d, sign) ==
    IF sign = 1
    THEN acc < I32_MAX \div 10 \/ (acc = I32_MAX \div 10 /\ d <= I32_MAX % 10)
    ELSE acc > -(I32_MAX \div 10) \/ (acc = -(I32_MAX \div 10) /\ d <= (I32_MAX % 10) + 1)

RECURSIVE DigitsVal(_, _, _)
\* the digits folded from the left; ok is FALSE once the value overflows
DigitsVal(s, acc, sign) ==
    IF s = <<>> THEN [ok |-> TRUE, val |-> acc]
    ELSE IF ~Fits(acc, DigitVal(Head(s)), sign) THEN [ok |-> FALSE, val |-> 0]
    ELSE DigitsVal(Tail(s), 10 * acc + sign * DigitVal(Head(s)), sign)

\* str::parse::<i32>: an optional sign, then one or more decimal digits, the
\* value within i32
ParseI32(s) ==
    LET signed == s # <<>> /\ Head(s) \in {"+", "-"}
        body == IF signed THEN Tail(s) ELSE s
        wellFormed == body # <<>> /\ \A i \in 1..Len(body) : IsDigit(body[i])
        sign == IF signed /\ Head(s) = "-" THEN -1 ELSE 1
    IN  IF wellFormed THEN DigitsVal(body, 0, sign) ELSE [ok |-> FALSE, val |-> 0]

RECURSIVE DecStr(_)
\* the decimal text of an integer (the ids a user types)
DecStr(n) ==
    IF n < 0 THEN <<"-">> \o DecStr(-n)
    ELSE IF n < 10 THEN <<Digits[n + 1]>>
    ELSE DecStr(n \div 10) \o <<Digits[(n % 10) + 1]>>

----------------------------------------------------------------------------
(* The Task store: the tasks table and its AUTOINCREMENT counter.          *)

\* Task::new
Task(id, name, date_added, is_done) ==
    [id |-> id, name |-> name, date_added |-> date_added, is_done |-> is_done]

SetMax(S) == IF S = {} THEN 0 ELSE CHOOSE m \in S : \A x \in S : x <= m

\* the largest rowid in the table (0 when it is empty)
MaxRowid(table) == SetMax({t.id : t \in table})

\* a variant: the rowid of a column declared without AUTOINCREMENT
NextRowidNoAutoincrement(table, sequence) == MaxRowid(table) + 1

\* PRIMARY KEY (id AUTOINCREMENT): one more than the larger of the
\* sqlite_sequence value and the largest rowid in the table
NextRowid(table, sequence) == SetMax({sequence, MaxRowid(table)}) + 1

\* Task::add: INSERT INTO tasks (name) VALUES (?); date_added and is_done
\* take their column defaults
TaskAdd(db, name, timestamp) ==
    LET id == NextRowid(db.rows, db.seq)
    IN  [rows |-> db.rows \cup {Task(id, name, timestamp, 0)}, seq |-> id]

\* a variant: ORDER BY id whatever the flag
BeforeById(a, b, sort_by_status) == a.id < b.id

\* ORDER BY is_done, id  /  ORDER BY id
Before(a, b, sort_by_status) ==
    IF sort_by_status
    THEN a.is_done < b.is_done \/ (a.is_done = b.is_done /\ a.id < b.id)
    ELSE a.id < b.id

RECURSIVE OrderBy(_, _)
OrderBy(table, sort_by_status) ==
    IF table = {} THEN <<>>
    ELSE LET first == CHOOSE t \in table :
                        \A u \in table \ {t} : Before(t, u, sort_by_status)
         IN  <<first>> \o OrderBy(table \ {first}, sort_by_status)

\* Task::list
TaskList(db, sort_by_status) == OrderBy(db.rows, sort_by_status)

\* a variant: the UPDATE without its WHERE clause
TaskToggleNoWhere(db, id) ==
    [db |-> [db EXCEPT !.rows = {Task(t.id, t.name, t.date_added, 1 - t.is_done) : t \in db.rows}],
     rows_affected |-> Cardinality(db.rows)]

\* a variant: SET is_done = 1
TaskToggleSetDone(db, id) ==
    LET hit == {t \in db.rows : t.id = id}
    IN  [db |-> [db EXCEPT !.rows = (db.rows \ hit) \cup
                    {Task(t.id, t.name, t.date_added, 1) : t \in hit}],
         rows_affected |-> Cardinality(hit)]

\* a variant: the UPDATE also writes date_added
TaskToggleTouchesDate(db, id) ==
    LET hit == {t \in db.rows : t.id = id}
    IN  [db |-> [db EXCEPT !.rows = (db.rows \ hit) \cup
                    {Task(t.id, t.name, t.date_added + 1, 1 - t.is_done) : t \in hit}],
         rows_affected |-> Cardinality(hit)]

\* Task::toggle: UPDATE tasks SET is_done = 1 - is_done WHERE id = ?
TaskToggle(db, id) ==
    LET hit == {t \in db.rows : t.id = id}
    IN  [db |-> [db EXCEPT !.rows = (db.rows \ hit) \cup
                    {Task(t.id, t.name, t.date_added, 1 - t.is_done) : t \in hit}],
         rows_affected |-> Cardinality(hit)]

\* Task::rm: DELETE FROM tasks WHERE id = ?
TaskRm(db, id) ==
    LET hit == {t \in db.rows : t.id = id}
    IN  [db |-> [db EXCEPT !.rows = db.rows \ hit],
         rows_affected |-> Cardinality(hit)]

\* Task::reset, first statement: DELETE FROM tasks
ResetDeleteTasks(db) == [db EXCEPT !.rows = {}]

\* Task::reset, second statement: DELETE FROM sqlite_sequence WHERE name='tasks'
ResetDeleteSequence(db) == [db EXCEPT !.seq = 0]

\* a variant: reset without its second statement
TaskResetKeepsSequence(db) == ResetDeleteTasks(db)

\* Task::reset
TaskReset(db) == ResetDeleteSequence(ResetDeleteTasks(db))

DB == [rows |-> rows, seq |-> seq]

----------------------------------------------------------------------------
(* Output *)

\* one printed line
Printed(text, id, name, status, date) ==
    [text |-> text, id |-> id, name |-> name, status |-> status, date |-> date]

Msg(text) == Printed(text, 0, <<>>, "", 0)

MsgId(text, id) == Printed(text, id, <<>>, "", 0)

\* help(): the title and the help text
Help == <<Msg("Available commands:")>>

\* Task::print_list: one line per task
PrintList(tasks) ==
    [i \in 1..Len(tasks) |->
        Printed("task", tasks[i].id, Truncate(tasks[i].name, PRINT_WIDTH).s,
                IF tasks[i].is_done = 1 THEN "DONE" ELSE "PENDING",
                tasks[i].date_added)]

PrintListPanics(tasks) ==
    \E i \in 1..Len(tasks) : Truncate(tasks[i].name, PRINT_WIDTH).panic

\* what Task::toggle prints
ToggleReport(rows_affected, id) ==
    IF rows_affected = 0 THEN <<MsgId("No task found with id: ", id)>>
    ELSE <<MsgId("Toggled task with id: ", id)>>

\* what Task::rm prints
RmReport(rows_affected, id) ==
    IF rows_affected = 0 THEN <<MsgId("No task found with id: ", id)>>
    ELSE <<MsgId("Removed task with id: ", id)>>

----------------------------------------------------------------------------
(* The command line *)

PROG == <<"t", "o", "d", "o">>
ADD == <<"a", "d", "d">>
LIST == <<"l", "i", "s", "t">>
MARK == <<"m", "a", "r", "k">>
RESET == <<"r", "e", "s", "e", "t">>
RM == <<"r", "m">>
SORT == <<"s", "o", "r", "t">>
HELP == <<"h", "e", "l", "p">>

\* the ids a user types after mark and rm: live ones, removed ones, ones
\* never assigned, zero, a negative one, and text that is no integer
IdTokens ==
    {DecStr(n) : n \in -1..(MaxId + 1)}
    \cup {<<"x">>, <<>>, <<"9", "9", "9", "9", "9", "9", "9", "9", "9", "9">>}

\* the words a user types after add
AddWords == {<<>>, <<<<>>>>, <<<<"a">>>>, <<<<"a">>, <<"b">>>>}

\* env::args().collect(): the process's argument vectors
Argvs ==
    {<<PROG>>}
    \cup {<<PROG, ADD>> \o w : w \in AddWords}
    \cup {<<PROG, c>> : c \in {LIST, MARK, RM, RESET, SORT, HELP, <<"-", "h">>, <<"x">>}}
    \cup {<<PROG, c, t>> : c \in {MARK, RM}, t \in IdTokens}

\* let suffix = &args[2..]...join(" ")
Suffix(argv) == Join(SubSeq(argv, 3, Len(argv)))

\* a variant: only args.len() < 3
BadIdOnlyMissing(argv) == Len(argv) < 3

\* args.len() < 3 || !args[2].parse::<i32>().is_ok()
BadId(argv) == IF Len(argv) < 3 THEN TRUE ELSE ~ParseI32(argv[3]).ok

\* what Confirm::interact can return: Ok(true), Ok(false), Err(_)
Confirmations == {"yes", "no", "err"}

----------------------------------------------------------------------------
(* The storage bootstrap *)

\* verify_db_path: what it prints
FolderReport ==
    IF db_folder THEN <<>> ELSE <<Msg("Created the database folder at: ")>>

\* get_connection: verify_db_path creates the folder, Connection::open the
\* file, verify_db the table
GetConnection ==
    /\ db_folder' = TRUE
    /\ db_file' = TRUE
    /\ tasks_table' = TRUE

\* no process is running: the next one can start
NoProcess == args = <<>>

Exits(argv, answer, printed, code) ==
    /\ args' = argv
    /\ confirmation' = answer
    /\ out' = FolderReport \o printed
    /\ exit_code' = code

StoreUnchanged == UNCHANGED <<rows, seq, ever_assigned, since_reset>>

Idle == UNCHANGED <<now, pc, truncVars>>

----------------------------------------------------------------------------
(* main: one action for each way through it *)

\* verify_db_path: fs::create_dir_all fails, the process panics
RunFolderPanic ==
    /\ NoProcess
    /\ \E argv \in Argvs :
        /\ ~db_folder
        /\ args' = argv
        /\ confirmation' = "none"
        /\ out' = <<>>
        /\ exit_code' = PANIC_EXIT
        /\ UNCHANGED fsVars
        /\ StoreUnchanged /\ Idle

\* args.len() == 1
RunNoArgs ==
    /\ NoProcess
    /\ \E argv \in Argvs :
        /\ Len(argv) = 1
        /\ GetConnection
        /\ Exits(argv, "none", <<Msg("No arguments were passed!")>> \o Help, 1)
        /\ StoreUnchanged /\ Idle

\* "add" with an empty suffix
RunAddEmpty ==
    /\ NoProcess
    /\ \E argv \in Argvs :
        /\ Len(argv) >= 2 /\ argv[2] = ADD
        /\ Suffix(argv) = <<>>
        /\ GetConnection
        /\ Exits(argv, "none", Help, 1)
        /\ StoreUnchanged /\ Idle

\* "add"
RunAdd ==
    /\ NoProcess
    /\ \E argv \in Argvs :
        /\ Len(argv) >= 2 /\ argv[2] = ADD
        /\ Suffix(argv) # <<>>
        /\ NextRowid(rows, seq) <= MaxId
        /\ GetConnection
        /\ LET after == TaskAdd(DB, Suffix(argv), now)
               given == {t.id : t \in after.rows \ rows}
           IN  /\ rows' = after.rows
               /\ seq' = after.seq
               /\ ever_assigned' = SetMax({ever_assigned} \cup given)
               /\ since_reset' = SetMax({since_reset} \cup given)
        /\ Exits(argv, "none", <<>>, 0)
        /\ Idle

\* "list"
RunList ==
    /\ NoProcess
    /\ \E argv \in Argvs :
        /\ Len(argv) >= 2 /\ argv[2] = LIST
        /\ GetConnection
        /\ LET tasks == TaskList(DB, FALSE)
           IN  IF tasks = <<>>
               THEN Exits(argv, "none", <<Msg("No tasks found.")>>, 0)
               ELSE IF PrintListPanics(tasks)
               THEN Exits(argv, "none", <<Msg("To-Do List (sorted by id):")>>, PANIC_EXIT)
               ELSE Exits(argv, "none",
                          <<Msg("To-Do List (sorted by id):")>> \o PrintList(tasks), 0)
        /\ StoreUnchanged /\ Idle

\* "mark" and "rm" without an id that parses
RunBadId ==
    /\ NoProcess
    /\ \E argv \in Argvs :
        /\ Len(argv) >= 2 /\ argv[2] \in {MARK, RM}
        /\ BadId(argv)
        /\ GetConnection
        /\ Exits(argv, "none", Help, 1)
        /\ StoreUnchanged /\ Idle

\* "mark"
RunMark ==
    /\ NoProcess
    /\ \E argv \in Argvs :
        /\ Len(argv) >= 2 /\ argv[2] = MARK
        /\ ~BadId(argv)
        /\ GetConnection
        /\ LET id == ParseI32(argv[3]).val
               r == TaskToggle(DB, id)
           IN  /\ rows' = r.db.rows
               /\ seq' = r.db.seq
               /\ Exits(argv, "none", ToggleReport(r.rows_affected, id), 0)
        /\ UNCHANGED <<ever_assigned, since_reset>> /\ Idle

\* the reset arm after the prompt: the store and what is printed
\* a variant: Err(_) handled like Ok(true)
ResetArmErrConfirms(db, answer) ==
    IF answer \in {"yes", "err"}
    THEN [db |-> TaskReset(db),
          printed |-> <<Msg("Database reset. All tasks have been deleted.")>>]
    ELSE [db |-> db, printed |-> <<Msg("Reset aborted.")>>]

ResetArm(db, answer) ==
    IF answer = "yes"
    THEN [db |-> TaskReset(db),
          printed |-> <<Msg("Database reset. All tasks have been deleted.")>>]
    ELSE IF answer = "no"
    THEN [db |-> db, printed |-> <<Msg("Reset aborted.")>>]
    ELSE [db |-> db, printed |-> <<Msg("Error processing input.")>>]

\* "reset"
RunReset ==
    /\ NoProcess
    /\ \E argv \in Argvs, answer \in Confirmations :
        /\ Len(argv) >= 2 /\ argv[2] = RESET
        /\ GetConnection
        /\ LET r == ResetArm(DB, answer)
           IN  /\ rows' = r.db.rows
               /\ seq' = r.db.seq
               /\ since_reset' = IF answer = "yes" THEN 0 ELSE since_reset
               /\ Exits(argv, answer, r.printed, 0)
        /\ UNCHANGED ever_assigned /\ Idle

\* "rm"
RunRm ==
    /\ NoProcess
    /\ \E argv \in Argvs :
        /\ Len(argv) >= 2 /\ argv[2] = RM
        /\ ~BadId(argv)
        /\ GetConnection
        /\ LET id == ParseI32(argv[3]).val
               r == TaskRm(DB, id)
           IN  /\ rows' = r.db.rows
               /\ seq' = r.db.seq
               /\ Exits(argv, "none", RmReport(r.rows_affected, id), 0)
        /\ UNCHANGED <<ever_assigned, since_reset>> /\ Idle

\* "sort"
RunSort ==
    /\ NoProcess
    /\ \E argv \in Argvs :
        /\ Len(argv) >= 2 /\ argv[2] = SORT
        /\ GetConnection
        /\ Exits(argv, "none", <<>>, 0)
        /\ StoreUnchanged /\ Idle

\* "help" | "--help" | "-h" | _
RunHelp ==
    /\ NoProcess
    /\ \E argv \in Argvs :
        /\ Len(argv) >= 2
        /\ argv[2] \notin {ADD, LIST, MARK, RESET, RM, SORT}
        /\ GetConnection
        /\ Exits(argv, "none", Help, 0)
        /\ StoreUnchanged /\ Idle

\* the process that exited is gone: the next one starts from the store alone
Reap ==
    /\ args # <<>>
    /\ args' = <<>>
    /\ confirmation' = "none"
    /\ out' = <<>>
    /\ exit_code' = 0
    /\ UNCHANGED <<fsVars, rows, seq, now, ever_assigned, since_reset, pc, truncVars>>

\* time passes between two processes
Tick ==
    /\ NoProcess
    /\ now < MaxClock
    /\ now' = now + 1
    /\ UNCHANGED <<fsVars, rows, seq, cliVars, ever_assigned, since_reset, pc, truncVars>>

Procs == {1, 2}

Init ==
    /\ db_folder = FALSE
    /\ db_file = FALSE
    /\ tasks_table = FALSE
    /\ rows = {}
    /\ seq = 0
    /\ now = 0
    /\ args = <<>>
    /\ confirmation = "none"
    /\ out = <<>>
    /\ exit_code = 0
    /\ ever_assigned = 0
    /\ since_reset = 0
    /\ pc = [p \in Procs |-> "idle"]
    /\ trunc_in = <<>>
    /\ trunc_max = 0
    /\ trunc_out = [called |-> FALSE, panic |-> FALSE, s |-> <<>>]

Next ==
    \/ RunFolderPanic
    \/ RunNoArgs
    \/ RunAddEmpty
    \/ RunAdd
    \/ RunList
    \/ RunBadId
    \/ RunMark
    \/ RunReset
    \/ RunRm
    \/ RunSort
    \/ RunHelp
    \/ Reap
    \/ Tick

Spec == Init /\ [][Next]_vars

----------------------------------------------------------------------------
(* Two processes on the same data file.  Each has its connection; SQLite   *)
(* runs each statement of a connection in autocommit mode as one           *)
(* transaction, so one statement is one step.                              *)

\* the names the two processes add
ConcNames == {<<"a">>}

ConcInit ==
    /\ db_folder = TRUE
    /\ db_file = TRUE
    /\ tasks_table = TRUE
    /\ rows = {}
    /\ seq = 0
    /\ now = 0
    /\ args = <<>>
    /\ confirmation = "none"
    /\ out = <<>>
    /\ exit_code = 0
    /\ ever_assigned = 0
    /\ since_reset = 0
    /\ pc = [p \in Procs |-> "idle"]
    /\ trunc_in = <<>>
    /\ trunc_max = 0
    /\ trunc_out = [called |-> FALSE, panic |-> FALSE, s |-> <<>>]

ConcFrame ==
    UNCHANGED <<fsVars, now, cliVars, ever_assigned, since_reset, truncVars>>

\* Task::add by process p
ProcAdd(p) ==
    /\ pc[p] = "idle"
    /\ NextRowid(rows, seq) <= MaxId
    /\ \E name \in ConcNames :
        LET after == TaskAdd(DB, name, now)
        IN  rows' = after.rows /\ seq' = after.seq
    /\ UNCHANGED pc
    /\ ConcFrame

\* Task::list by process p
ProcList(p) ==
    /\ pc[p] = "idle"
    /\ \E sort_by_status \in BOOLEAN :
        Len(TaskList(DB, sort_by_status)) = Cardinality(rows)
    /\ UNCHANGED <<rows, seq, pc>>
    /\ ConcFrame

\* Task::toggle by process p
ProcToggle(p) ==
    /\ pc[p] = "idle"
    /\ \E id \in 1..MaxId :
        LET r == TaskToggle(DB, id)
        IN  rows' = r.db.rows /\ seq' = r.db.seq
    /\ UNCHANGED pc
    /\ ConcFrame

\* Task::rm by process p
ProcRm(p) ==
    /\ pc[p] = "idle"
    /\ \E id \in 1..MaxId :
        LET r == TaskRm(DB, id)
        IN  rows' = r.db.rows /\ seq' = r.db.seq
    /\ UNCHANGED pc
    /\ ConcFrame

\* Task::reset by process p: its first statement
ProcResetDeleteTasks(p) ==
    /\ pc[p] = "idle"
    /\ LET after == ResetDeleteTasks(DB)
       IN  rows' = after.rows /\ seq' = after.seq
    /\ pc' = [pc EXCEPT ![p] = "reset"]
    /\ ConcFrame

\* Task::reset by process p: its second statement
ProcResetDeleteSequence(p) ==
    /\ pc[p] = "reset"
    /\ LET after == ResetDeleteSequence(DB)
       IN  rows' = after.rows /\ seq' = after.seq
    /\ pc' = [pc EXCEPT ![p] = "idle"]
    /\ ConcFrame

ConcNext ==
    \E p \in Procs :
        \/ ProcAdd(p)
        \/ ProcList(p)
        \/ ProcToggle(p)
        \/ ProcRm(p)
        \/ ProcResetDeleteTasks(p)
        \/ ProcResetDeleteSequence(p)

ConcSpec == ConcInit /\ [][ConcNext]_vars

----------------------------------------------------------------------------
(* truncate on its own *)

NameChars == {"a", TwoByteChar}

Repeat(c, n) == [i \in 1..n |-> c]

\* n characters, the k-th of them (if any) the two-byte one
OneWide(n, k) == [i \in 1..n |-> IF i = k THEN TwoByteChar ELSE "a"]

\* every name of at most MaxNameLen characters; names around the display
\* width with at most one two-byte character; names of two-byte characters
\* around half the display width
TruncInputs ==
    UNION {[1..n -> NameChars] : n \in 0..MaxNameLen}
    \cup {OneWide(n, k) : n \in (PRINT_WIDTH - Around)..(PRINT_WIDTH + Around),
                          k \in {0, 1, PRINT_WIDTH - Around, PRINT_WIDTH - Around + 1}}
    \cup {Repeat(TwoByteChar, n) :
            n \in ((PRINT_WIDTH \div 2) - Around)..((PRINT_WIDTH \div 2) + Around)}

TruncInit ==
    /\ db_folder = FALSE
    /\ db_file = FALSE
    /\ tasks_table = FALSE
    /\ rows = {}
    /\ seq = 0
    /\ now = 0
    /\ args = <<>>
    /\ confirmation = "none"
    /\ out = <<>>
    /\ exit_code = 0
    /\ ever_assigned = 0
    /\ since_reset = 0
    /\ pc = [p \in Procs |-> "idle"]
    /\ trunc_in \in TruncInputs
    /\ trunc_max = PRINT_WIDTH
    /\ trunc_out = [called |-> FALSE, panic |-> FALSE, s |-> <<>>]

\* truncate(&task.name, max)
TruncateCall ==
    /\ ~trunc_out.called
    /\ LET r == Truncate(trunc_in, trunc_max)
       IN  trunc_out' = [called |-> TRUE, panic |-> r.panic, s |-> r.s]
    /\ UNCHANGED <<fsVars, rows, seq, now, cliVars, ever_assigned, since_reset,
                   pc, trunc_in, trunc_max>>

TruncNext == TruncateCall

TruncSpec == TruncInit /\ [][TruncNext]_vars

----------------------------------------------------------------------------
(* Properties *)

Range(f) == {f[i] : i \in 1..Len(f)}

Ids(table) == {t.id : t \in table}

\* this step is a whole run of main with command cmd
Ran(cmd) == args = <<>> /\ Len(args') >= 2 /\ args'[2] = cmd

\* the id typed after mark or rm
TypedId(argv) == ParseI32(argv[3])

GoodId(argv) == Len(argv) >= 3 /\ TypedId(argv).ok

LastLine(printed) == printed[Len(printed)]

\* what add followed by list shows, against what list showed before; floor
\* is the id the new task's id must exceed
AddShowsOneNewTask(floor) ==
    LET before == TaskList(DB, FALSE)
        after == TaskList([rows |-> rows', seq |-> seq'], FALSE)
        new == Range(after) \ Range(before)
    IN  /\ Len(after) = Len(before) + 1
        /\ Cardinality(new) = 1
        /\ \A t \in new :
              /\ t.name = Suffix(args')
              /\ t.is_done = 0
              /\ t.id > floor
        /\ Range(before) \subseteq Range(after)

\* C1 as stated: after any sequence of add, toggle, rm and reset, add(name)
\* followed by list() shows exactly one new task, with the name given,
\* is_done = 0 and an id greater than every id assigned before, the tasks
\* listed before still listed unchanged
C1_AddIdAboveEveryEarlierId ==
    [][(Ran(ADD) /\ exit_code' = 0) => AddShowsOneNewTask(ever_assigned)]_vars

\* C1 amended: the same, the new id greater than every id assigned since the
\* last reset (ids of tasks removed by rm included)
C1_AddIdAboveIdsSinceReset ==
    [][(Ran(ADD) /\ exit_code' = 0) => AddShowsOneNewTask(since_reset)]_vars

\* add has run after the task with id 2 was removed: ids 1 and 3 are listed
C1_Witness ==
    /\ Len(args) >= 2 /\ args[2] = ADD /\ exit_code = 0
    /\ Ids(rows) = {1, 3}
    /\ \E t \in rows : t.id = 3 /\ t.name = <<"a", " ", "b">>

\* C2: from any reachable store state a confirmed reset leaves the table
\* empty, and the next add is given id 1
C2_ResetThenAddGivesOne ==
    [][/\ (Ran(RESET) /\ confirmation' = "yes") => rows' = {}
       /\ (Ran(ADD) /\ exit_code' = 0 /\ since_reset = 0) => Ids(rows') = {1}]_vars

\* add has run as the first add after a reset that followed higher ids
C2_Witness ==
    /\ Len(args) >= 2 /\ args[2] = ADD /\ exit_code = 0
    /\ Ids(rows) = {1}
    /\ since_reset = 1
    /\ ever_assigned >= 3

\* C3: mark and rm with an id no live task has change no row, report that no
\* task was found, and exit with status 0
C3_UnknownIdChangesNothing ==
    [][\A cmd \in {MARK, RM} :
         (/\ Ran(cmd)
          /\ GoodId(args')
          /\ exit_code' # PANIC_EXIT
          /\ TypedId(args').val \notin Ids(rows))
         => /\ rows' = rows
            /\ seq' = seq
            /\ LastLine(out') = MsgId("No task found with id: ", TypedId(args').val)
            /\ exit_code' = 0]_vars

\* mark has run with the id of a task that was removed, other tasks live
C3_Witness ==
    /\ Len(args) >= 3 /\ args[2] = MARK /\ exit_code = 0
    /\ TypedId(args).ok
    /\ TypedId(args).val \in 1..ever_assigned
    /\ TypedId(args).val \notin Ids(rows)
    /\ LastLine(out) = MsgId("No task found with id: ", TypedId(args).val)
    /\ \E t \in rows : t.is_done = 1

\* a usage error: no argument, add with an empty text, mark or rm without an
\* id that is an i32
UsageError(argv) ==
    \/ Len(argv) = 1
    \/ Len(argv) >= 2 /\ argv[2] = ADD /\ Suffix(argv) = <<>>
    \/ Len(argv) >= 2 /\ argv[2] \in {MARK, RM} /\ ~GoodId(argv)

HelpPrinted(printed) == \E i \in 1..Len(printed) : printed[i] = Help[1]

\* C4 as stated: a usage error prints help and exits with status 1 without
\* having created the data directory, the data file or the table, and
\* without changing a row
C4_UsageErrorBeforeStorage ==
    [][(args = <<>> /\ args' # <<>> /\ UsageError(args'))
        => /\ exit_code' = 1
           /\ HelpPrinted(out')
           /\ UNCHANGED <<db_folder, db_file, tasks_table, rows, seq>>]_vars

\* C4 amended: a usage error is detected after the storage bootstrap: the
\* directory, the file and the table exist when help is printed and the
\* process exits with status 1 (or the process panicked creating the
\* directory and nothing was created); no row and no counter changes
C4_UsageErrorAfterBootstrap ==
    [][(args = <<>> /\ args' # <<>> /\ UsageError(args'))
        => /\ UNCHANGED <<rows, seq>>
           /\ \/ /\ exit_code' = 1
                 /\ HelpPrinted(out')
                 /\ db_folder' /\ db_file' /\ tasks_table'
              \/ /\ exit_code' = PANIC_EXIT
                 /\ ~db_folder
                 /\ UNCHANGED <<db_folder, db_file, tasks_table>>]_vars

\* mark with a text that is no integer has exited 1 on a table with rows
C4_Witness ==
    /\ Len(args) = 3 /\ args[2] = MARK /\ args[3] = <<"x">>
    /\ exit_code = 1
    /\ db_folder /\ db_file /\ tasks_table
    /\ rows # {}

\* C5: no other process's store operation takes effect between the beginning
\* and the end of one store operation
C5_StoreOperationsAtomic ==
    [][\A p \in Procs :
         (pc[p] # "idle" /\ pc'[p] = pc[p]) => UNCHANGED <<rows, seq>>]_vars

\* C6: a reset answered "no", or whose prompt failed, changes no row and not
\* the counter and exits with status 0; rows are deleted only on "yes"
C6_DeclinedResetChangesNothing ==
    [][(Ran(RESET) /\ exit_code' # PANIC_EXIT)
        => /\ exit_code' = 0
           /\ confirmation' \in {"no", "err"}
                => /\ UNCHANGED <<rows, seq>>
                   /\ LastLine(out') # Msg("Database reset. All tasks have been deleted.")
           /\ rows' # rows => confirmation' = "yes"]_vars

\* reset has run on a table with rows and the prompt failed
C6_Witness ==
    /\ Len(args) >= 2 /\ args[2] = RESET
    /\ confirmation = "err"
    /\ exit_code = 0
    /\ Cardinality(rows) >= 2

TableOK(table) ==
    \A t \in table :
        /\ t.id >= 1
        /\ t.is_done \in {0, 1}
        /\ \A u \in table : u.id = t.id => u = t

\* C7: every row has a positive id, no two rows share an id, is_done is 0 or
\* 1, a row keeps its id and date_added while it exists: ids appear only by
\* add and disappear only by rm and reset
C7_TableInvariants ==
    [][/\ TableOK(rows')
       /\ \A t \in rows :
            t.id \in Ids(rows') =>
                \E u \in rows' : u.id = t.id /\ u.date_added = t.date_added
       /\ Ids(rows') \ Ids(rows) # {} => Ran(ADD)
       /\ Ids(rows) \ Ids(rows') # {} => (Ran(RM) \/ Ran(RESET))]_vars

\* mark has run on a table with a done task and tasks of two dates
C7_Witness ==
    /\ Len(args) >= 2 /\ args[2] = MARK /\ exit_code = 0
    /\ LastLine(out).text = "Toggled task with id: "
    /\ \E t, u \in rows : t.is_done = 1 /\ u.date_added # t.date_added

ListOK(table, sort_by_status) ==
    LET l == TaskList([rows |-> table, seq |-> 0], sort_by_status)
    IN  /\ Len(l) = Cardinality(table)
        /\ Range(l) = table
        /\ \A i, j \in 1..Len(l) :
              i < j =>
                IF sort_by_status
                THEN \/ l[i].is_done = 0 /\ l[j].is_done = 1
                     \/ l[i].is_done = l[j].is_done /\ l[i].id < l[j].id
                ELSE l[i].id < l[j].id

\* C8: list returns every row once; sorted by status the pending tasks come
\* before the done ones with ids ascending in each group, otherwise ids
\* ascend; list changes no row
C8_ListOrder ==
    [][/\ ListOK(rows', TRUE)
       /\ ListOK(rows', FALSE)
       /\ Ran(LIST) => UNCHANGED <<rows, seq>>]_vars

\* list has run on three tasks, the first done and the others pending
C8_Witness ==
    /\ Len(args) >= 2 /\ args[2] = LIST /\ exit_code = 0
    /\ Len(out) = 4
    /\ Ids(rows) = {1, 2, 3}
    /\ \A t \in rows : t.is_done = (IF t.id = 1 THEN 1 ELSE 0)

\* C9: toggle of a live id flips that task's is_done and nothing else, and a
\* second toggle restores the table
C9_ToggleFlips ==
    [][(/\ Ran(MARK)
        /\ GoodId(args')
        /\ exit_code' # PANIC_EXIT
        /\ TypedId(args').val \in Ids(rows))
        => \E t \in rows :
              /\ t.id = TypedId(args').val
              /\ rows' = (rows \ {t}) \cup
                           {Task(t.id, t.name, t.date_added,
                                 IF t.is_done = 0 THEN 1 ELSE 0)}
              /\ seq' = seq
              /\ TaskToggle([rows |-> rows', seq |-> seq'], t.id).db.rows = rows]_vars

\* mark has run on a done task, which is pending again, beside another task
C9_Witness ==
    /\ Len(args) >= 3 /\ args[2] = MARK /\ exit_code = 0
    /\ LastLine(out).text = "Toggled task with id: "
    /\ \E t \in rows : t.id = LastLine(out).id /\ t.is_done = 0
    /\ \E u \in rows : u.id # LastLine(out).id /\ u.is_done = 1

\* C10: truncate returns a name of at most max characters unchanged, and a
\* longer one as its first max - 3 characters and "...", max characters long
C10_Truncate ==
    trunc_out.called =>
        /\ ~trunc_out.panic
        /\ Len(trunc_in) <= trunc_max => trunc_out.s = trunc_in
        /\ Len(trunc_in) > trunc_max =>
              /\ trunc_out.s = Prefix(trunc_in, trunc_max - 3) \o Ellipsis
              /\ Len(trunc_out.s) = trunc_max

====
